---- MODULE Spec2Model ----
(***************************************************************************)
(* Offline-durable cache synchronisation of salestracker/shodhan.          *)
(*                                                                         *)
(* Two execution contexts are modelled as communicating state machines:    *)
(*   - the page: src/src/utils/serviceWorkerClient.ts (handshake, event    *)
(*     bus) and src/src/services/searchService.ts (sync submission);       *)
(*   - the worker: src/src/service-worker.ts (message listener, install /  *)
(*     activate listeners, the Workbox route and its background-sync       *)
(*     queue).                                                             *)
(*                                                                         *)
(* Specifications:                                                         *)
(*   Spec      the handshake and the page's sync submissions, up to the    *)
(*             fetch event that receives a submission;                     *)
(*   SyncSpec  the worker's route, its durable queue and the queue drain,  *)
(*             driven by requests of window clients in the worker's scope; *)
(*   UpdateSpec, CacheSpec, ThreadSpec, SaveSpec, HistorySpec              *)
(*             worker updates, the local result cache, conversation        *)
(*             threads, saves alone and the search history;                *)
(*   SearchSpec, FindSpec, StaleSpec, FollowUpSpec                         *)
(*             searchWithDeepSeek over its tiers, one call of              *)
(*             findSimilarCachedResults with every outcome of its steps,   *)
(*             a search over a store that loses keys, and follow-up        *)
(*             searches in flight together;                                *)
(*   WorkerSyncSpec, FilterSpec                                            *)
(*             the worker's syncCacheData, its cursor and the messages it  *)
(*             posts to the page, and its filter over any cache data.      *)
(***************************************************************************)
EXTENDS Integers, Sequences, FiniteSets, TLC

(***************************************************************************)
(* Bounds of the model.                                                    *)
(***************************************************************************)
\* worker versions deployed during one page life
MaxVersion == 2
\* sync submissions one page issues (Spec)
MaxSubmissions == 2
\* requests window clients issue (SyncSpec)
MaxRequests == 3
\* the clock advances in steps of TickHours up to MaxClock (hours)
TickHours == 24
MaxClock == 48
\* result ids in the cache, and saveSearchResult calls in a run
MaxNodes == 3
MaxSaves == 3
\* history.save calls, how many of them save an id again, and the ids that
\* can be saved again
MaxHistSaves == 52
MaxResaves == 1
MaxResaveId == 2
\* searchWithDeepSeek calls in a run, the query texts they are made with and
\* the values generateQueryHash takes on them
MaxSearches == 2
\* searches in a run of the similarity gateway (FindSpec)
MaxFinds == 1
\* syncCacheData calls in a run
MaxSyncs == 2
\* entries in the cache data one syncCacheData call receives, and the largest
\* timestamp (ms) among them
MaxEntries == 2
MaxStamp == 2
\* follow-up searches in flight at once, and the milliseconds that pass while
\* they are
MaxPending == 2
MaxMs == 1
MaxQueries == 3
HashSpace == 2

(***************************************************************************)
(* Program constants.                                                      *)
(***************************************************************************)
\* maxRetentionTime of the background-sync queue, in minutes
MaxRetentionTime == 24 * 60
\* the only path the worker's route matches, and the path the page posts to
RoutePath == "/sync-cache"
SyncPath == "/api/sync"

Versions == 1..MaxVersion

\* cacheService.ts
CACHE_TTL == 24 * 60 * 60 * 1000
MsPerHour == 60 * 60 * 1000
NodeIds == 1..MaxNodes
\* parentId of a root result (undefined)
NoParent == 0
Absent == [kind |-> "absent"]
EmptyStore == [id \in NodeIds |-> Absent]
NoGet == [id |-> 0, had |-> FALSE, expires |-> 0, at |-> 0, hit |-> FALSE]
NoThread == [root |-> 0, at |-> 0, result |-> [kind |-> "none"]]

\* cacheSimilarityService.ts
SIMILARITY_POLL_INTERVAL == 1000
MAX_POLL_ATTEMPTS == 5
\* results findSimilarCachedResults returns at most: userResults.slice(0, 5)
SimilarLimit == 5
Queries == 1..MaxQueries
\* no findSimilarCachedResults call is in progress
NoFind == [phase |-> "idle", attempt |-> 0, polls |-> 0, waited |-> 0,
           aborted |-> FALSE, n |-> 0]
\* no searchWithDeepSeek call is in progress
NoRet == [kind |-> "none", n |-> 0]
NoSearch == [phase |-> "idle", kind |-> "none", query |-> 0, parent |-> 0,
             user |-> FALSE, tiers |-> <<>>, llm |-> "none", ret |-> NoRet]
\* "repo": the worker built from src/src/service-worker.ts.
\* "handshake": a worker build served under the same scope that answers
\* PING with PONG, the handshake docs/cache-sync-implementation.md describes;
\* no such handler is in the repository.
Builds == {"repo", "handshake"}
Paths == {RoutePath, SyncPath}
Methods == {"POST", "GET"}
\* what an HTTP endpoint answers when it is reached
Statuses == {200, 400, 500}

NoResp == [kind |-> "none", status |-> 0]
NetErr == [kind |-> "neterr", status |-> 0]
Http(s) == [kind |-> "http", status |-> s]
\* response.ok
Ok(r) == r.kind = "http" /\ r.status \in 200..299

\* the filter loop of syncCacheData has not run
NoRun == [ran |-> FALSE, lastTs |-> 0, filteredData |-> <<>>, posted |-> FALSE]

\* a syncCacheData call that has done nothing yet
NoSync == [phase |-> "idle", trigger |-> "none", payload |-> {}, prev |-> 0,
           resp |-> NoResp, outcome |-> "none"]

VARIABLES
  \* ---- worker lifecycle (browser registration state)
  build,            \* the worker build the site serves (all its versions)
  swState,          \* swState[v]: lifecycle state of version v
  controller,       \* navigator.serviceWorker.controller (0: none)
  inbox,            \* inbox[v]: messages posted to worker v, not yet handled
  \* ---- page
  pageQ,            \* page task queue: container events and worker messages
  swReady,          \* the swReady promise is resolved
  waiting,          \* reactions registered on swReady, in registration order
  issued,           \* number of requests issued so far (ids are 1..issued)
  reqs,             \* reqs[id]: the request and what became of it
  forwarded,        \* ids of sync requests the page has sent, in send order
  fetchQ,           \* fetches issued by clients, not yet dispatched
  \* ---- handshake bookkeeping (history)
  pingsPosted,      \* pingsPosted[v]: PINGs the page posted to v
  pingsHandled,     \* pingsHandled[v]: PINGs v's message listener handled
  pongsPosted,      \* pongsPosted[v]: PONGs v posted to the page
  pongsFrom,        \* pongsFrom[v]: PONGs of v the page has received
  clientReady,      \* clientReady[v]: CLIENT_READY messages posted to v
  ccHandled,        \* controllerchange events the page has handled
  flushed,          \* reactions run when swReady resolved
  \* ---- network and background sync
  online,           \* the network is reachable
  now,              \* clock, in hours
  queue,            \* the durable queue 'cache-sync-queue'
  syncState,        \* "none" | "registered" | "draining" | "failed"
  drainStart,       \* the queue when the running (or last) drain started
  replayLog,        \* replays that reached their endpoint: <<[id, status]>>
  \* ---- page storage (localStorage): result cache and search history
  store,            \* store[id]: the entry under key conv_<id>, or Absent
  saveLog,          \* saveSearchResult calls so far (history)
  lastGet,          \* the getSearchResult call just made and what it returned
  thread,           \* the getConversationThread call just made and its result
  history,          \* the array under key 'search-history'
  histLog,          \* ids of the items saved to the history so far (history)
  \* ---- search orchestrator and similarity gateway (page)
  so,               \* the searchWithDeepSeek call in progress
  scg,              \* the findSimilarCachedResults call in progress
  fingerprint,      \* localStorage has the key 'searchGptFingerprintId'
  emitted,          \* bodies of the sync submissions searches have emitted
  searches,         \* searchWithDeepSeek calls started so far
  \* ---- worker: syncCacheData
  webhookUrl,       \* the worker's webhookUrl is set (SET_CONFIG was handled)
  lastSyncTimestamp,\* the value under 'lastSyncTimestamp' in IndexedDB (ms)
  cacheSync,        \* the syncCacheData calls in progress, oldest first
  finished,         \* the syncCacheData call that ended last
  syncs,            \* syncCacheData calls started so far
  notices,          \* messages the worker posted to the page, not yet handled
  handled,          \* what the page's message listeners did with them
  accepted,         \* the entries in the payloads the webhook answered 2xx to
  \* ---- worker: the filter of syncCacheData
  cacheData,        \* the array requestCacheDataFromMainThread resolved with
  filterRun,        \* the filter loop's run over it, and whether a POST was made
  \* ---- page: follow-up searches in flight together
  pending,          \* the follow-up searches waiting for the LLM's answer
  produced,         \* the follow-up results made: parent, Date.now(), query, id
  clockMs           \* Date.now() at millisecond grain, from the first search on

lifecycleVars == <<build, swState, controller, inbox>>
pageVars == <<pageQ, swReady, waiting, issued, reqs, forwarded, fetchQ>>
historyVars == <<pingsPosted, pingsHandled, pongsPosted, pongsFrom, clientReady,
                 ccHandled, flushed>>
syncVars == <<online, now, queue, syncState, drainStart, replayLog>>
cacheVars == <<store, saveLog, lastGet, thread, history, histLog>>
searchVars == <<so, scg, fingerprint, emitted, searches>>
wsyncVars == <<webhookUrl, lastSyncTimestamp, cacheSync, finished, syncs, notices,
               handled, accepted>>
filterVars == <<cacheData, filterRun>>
followUpVars == <<pending, produced, clockMs>>
restVars == <<searchVars, wsyncVars, filterVars, followUpVars>>
vars == <<lifecycleVars, pageVars, historyVars, syncVars, cacheVars, restVars>>

Range(s) == {s[i] : i \in 1..Len(s)}
Sum(f) == LET RECURSIVE S(_)
              S(D) == IF D = {} THEN 0
                      ELSE LET x == CHOOSE y \in D : TRUE IN f[x] + S(D \ {x})
          IN S(DOMAIN f)

(***************************************************************************)
(* Initial states.                                                         *)
(***************************************************************************)
NoHistory ==
  /\ pingsPosted = [v \in Versions |-> 0]
  /\ pingsHandled = [v \in Versions |-> 0]
  /\ pongsPosted = [v \in Versions |-> 0]
  /\ pongsFrom = [v \in Versions |-> 0]
  /\ clientReady = [v \in Versions |-> 0]
  /\ ccHandled = 0
  /\ flushed = 0

PageInit ==
  /\ pageQ = <<>>
  /\ swReady = FALSE
  /\ waiting = <<>>
  /\ issued = 0
  /\ reqs = <<>>
  /\ forwarded = <<>>
  /\ fetchQ = <<>>

SyncIdle ==
  /\ now = 0
  /\ queue = <<>>
  /\ syncState = "none"
  /\ drainStart = <<>>
  /\ replayLog = <<>>

\* Empty localStorage; no cache call has been made.
CacheIdle ==
  /\ store = EmptyStore
  /\ saveLog = <<>>
  /\ lastGet = NoGet
  /\ thread = NoThread
  /\ history = <<>>
  /\ histLog = <<>>

\* The worker has just started: no webhookUrl, no record in IndexedDB
\* (getLastSyncTimestamp gives 0), no sync made.
WorkerSyncIdle ==
  /\ webhookUrl = FALSE
  /\ lastSyncTimestamp = 0
  /\ cacheSync = <<>>
  /\ finished = NoSync
  /\ syncs = 0
  /\ notices = <<>>
  /\ handled = {}
  /\ accepted = {}

\* No cache data has been received, the filter has not run.
FilterIdle ==
  /\ cacheData = <<>>
  /\ filterRun = NoRun

\* No follow-up search is in flight.
FollowUpIdle ==
  /\ pending = <<>>
  /\ produced = {}
  /\ clockMs = 0

\* No search has been made; AppProvider has mounted and stored a fingerprint
\* id (AppContext.tsx 77-85).
SearchIdle ==
  /\ so = NoSearch
  /\ scg = NoFind
  /\ fingerprint = TRUE
  /\ emitted = <<>>
  /\ searches = 0

\* First visit: no worker is registered, the page module has just been loaded.
Init ==
  /\ build \in Builds
  /\ swState = [v \in Versions |-> "absent"]
  /\ controller = 0
  /\ inbox = [v \in Versions |-> <<>>]
  /\ PageInit
  /\ NoHistory
  /\ online = TRUE
  /\ SyncIdle
  /\ CacheIdle
  /\ SearchIdle
  /\ WorkerSyncIdle
  /\ FilterIdle
  /\ FollowUpIdle

\* The repository's worker (version 1) is installed, active and controls the
\* clients of its scope; the network is up or down.
SyncInit ==
  /\ build = "repo"
  /\ swState = [v \in Versions |-> IF v = 1 THEN "controlling" ELSE "absent"]
  /\ controller = 1
  /\ inbox = [v \in Versions |-> <<>>]
  /\ PageInit
  /\ NoHistory
  /\ online \in BOOLEAN
  /\ SyncIdle
  /\ CacheIdle
  /\ SearchIdle
  /\ WorkerSyncIdle
  /\ FilterIdle
  /\ FollowUpIdle

(***************************************************************************)
(* Worker lifecycle: registration (main.tsx, registerType 'autoUpdate'),   *)
(* install and activate listeners of service-worker.ts.                    *)
(***************************************************************************)
Active(v) == swState[v] \in {"activated", "controlling"}
EverActive == \E w \in Versions : swState[w] \in {"activated", "controlling", "redundant"}

\* The browser fetches a (new) worker script for the scope and starts
\* installing it. Versions are deployed one after the other.
Deploy(v) ==
  /\ swState[v] = "absent"
  /\ IF v = 1 THEN TRUE
     ELSE swState[v - 1] \in {"activated", "controlling", "redundant"}
  /\ swState' = [swState EXCEPT ![v] = "installing"]
  /\ UNCHANGED <<build, controller, inbox, pageVars, historyVars, syncVars>>
  /\ UNCHANGED cacheVars
  /\ UNCHANGED restVars

\* An install listener without skipWaiting(): the installed worker waits for
\* the clients of the old version to close.
StaysWaiting == "waiting"

\* install listener: self.skipWaiting(), so the installed worker does not
\* wait for the clients of the old version to close.
AfterInstall == "activating"

Install(v) ==
  /\ swState[v] = "installing"
  /\ swState' = [swState EXCEPT ![v] = AfterInstall]
  /\ UNCHANGED <<build, controller, inbox, pageVars, historyVars, syncVars>>
  /\ UNCHANGED cacheVars
  /\ UNCHANGED restVars

\* The worker becomes the registration's active worker (the previous active
\* worker becomes redundant); the first activation resolves
\* navigator.serviceWorker.ready on the page.
Activate(v) ==
  /\ swState[v] = "activating"
  /\ swState' = [w \in Versions |->
                   IF w = v THEN "activated"
                   ELSE IF Active(w) THEN "redundant" ELSE swState[w]]
  /\ pageQ' = IF EverActive THEN pageQ
              ELSE Append(pageQ, [type |-> "ready", from |-> v])
  /\ UNCHANGED <<build, controller, inbox, swReady, waiting, issued, reqs,
                 forwarded, fetchQ, historyVars, syncVars>>
  /\ UNCHANGED cacheVars
  /\ UNCHANGED restVars

\* activate listener: self.clients.claim() completes: the worker controls the
\* page (controllerchange fires there) and posts SERVICE_WORKER_ACTIVATED.
Claim(v) ==
  /\ swState[v] = "activated"
  /\ swState' = [swState EXCEPT ![v] = "controlling"]
  /\ controller' = v
  /\ pageQ' = pageQ \o << [type |-> "controllerchange", from |-> v],
                          [type |-> "SERVICE_WORKER_ACTIVATED", from |-> v] >>
  /\ UNCHANGED <<build, inbox, swReady, waiting, issued, reqs, forwarded,
                 fetchQ, historyVars, syncVars>>
  /\ UNCHANGED cacheVars
  /\ UNCHANGED restVars

(***************************************************************************)
(* Page: serviceWorkerClient.ts.                                           *)
(***************************************************************************)
Post(ib, v, m) == [ib EXCEPT ![v] = Append(@, m)]

\* sendPing: posts PING to the controller, if there is one.
sendPing(ib) ==
  IF controller # 0 THEN Post(ib, controller, [type |-> "PING", id |-> 0]) ELSE ib

\* PINGs added to worker v's inbox by a step from ib to ib2.
NewPings(ib, ib2, v) ==
  Cardinality({i \in 1..Len(ib2[v]) : i > Len(ib[v]) /\ ib2[v][i].type = "PING"})

CountPings(ib, ib2) == [v \in Versions |-> pingsPosted[v] + NewPings(ib, ib2, v)]

\* navigator.serviceWorker.ready.then(() => sendPing())
OnServiceWorkerReady ==
  /\ pageQ # <<>>
  /\ Head(pageQ).type = "ready"
  /\ pageQ' = Tail(pageQ)
  /\ inbox' = sendPing(inbox)
  /\ pingsPosted' = CountPings(inbox, inbox')
  /\ UNCHANGED <<build, swState, controller, swReady, waiting, issued, reqs,
                 forwarded, fetchQ, pingsHandled, pongsPosted, pongsFrom,
                 clientReady, ccHandled, flushed, syncVars>>
  /\ UNCHANGED cacheVars
  /\ UNCHANGED restVars

\* controllerchange listener: re-initiates the handshake.
RePing(ib) == sendPing(ib)

OnControllerChange ==
  /\ pageQ # <<>>
  /\ Head(pageQ).type = "controllerchange"
  /\ pageQ' = Tail(pageQ)
  /\ inbox' = RePing(inbox)
  /\ pingsPosted' = CountPings(inbox, inbox')
  /\ ccHandled' = ccHandled + 1
  /\ UNCHANGED <<build, swState, controller, swReady, waiting, issued, reqs,
                 forwarded, fetchQ, pingsHandled, pongsPosted, pongsFrom,
                 clientReady, flushed, syncVars>>
  /\ UNCHANGED cacheVars
  /\ UNCHANGED restVars

\* The state a sync request is sent into.
Outbox == [inbox |-> inbox, fetchQ |-> fetchQ, forwarded |-> forwarded, reqs |-> reqs]

\* The 'sync-request' listener after `await swReady`: posts SYNC_DATA to the
\* controller; without a controller the request is logged and dropped.
ForwardBus(id, out) ==
  IF controller # 0
  THEN [out EXCEPT !.inbox = Post(@, controller, [type |-> "SYNC_DATA", id |-> id]),
                   !.forwarded = Append(@, id),
                   !.reqs[id].via = "message",
                   !.reqs[id].ctrl = controller]
  ELSE [out EXCEPT !.reqs[id].via = "dropped"]

\* searchService.ts after swReady: fetch('/api/sync', {method: 'POST', ...}).
\* The fetch event goes to the worker that controls the page at that moment.
ForwardFetch(id, out) ==
  [out EXCEPT !.fetchQ = Append(@, id),
              !.forwarded = Append(@, id),
              !.reqs[id].ctrl = controller]

ForwardOne(item, out) ==
  IF item.kind = "bus" THEN ForwardBus(item.id, out) ELSE ForwardFetch(item.id, out)

\* The reactions registered on swReady run in registration order.
RECURSIVE RunReactions(_, _)
RunReactions(ws, out) ==
  IF ws = <<>> THEN out ELSE RunReactions(Tail(ws), ForwardOne(Head(ws), out))

\* A page that sends without waiting for swReady.
NeverWaits == FALSE

\* `await swReady` / `swReady.then`: a request issued while the promise is
\* pending has to wait.
MustWait == ~swReady

\* A page that keeps only the latest request waiting.
HoldLatest(ws, item) == <<item>>

\* Registering a reaction on the pending promise.
Hold(ws, item) == Append(ws, item)

\* A page that takes any worker message for the handshake answer.
IsAnyMessage(type) == type \in {"PONG", "SERVICE_WORKER_ACTIVATED"}

\* The message listener's test for the end of the handshake.
IsPong(type) == type = "PONG"

\* A promise that a second resolution flips back to pending.
ToggleReady(resolved) == ~resolved

\* resolveSwReady(): settles the promise; resolving a settled promise has no
\* effect.
resolveSwReady(resolved) == TRUE

\* message listener of serviceWorkerClient.ts: on PONG, resolveSwReady(),
\* post CLIENT_READY to the controller; then (microtasks) the reactions
\* registered on swReady run, if this PONG resolved it.
OnMessage ==
  /\ pageQ # <<>>
  /\ Head(pageQ).type \notin {"ready", "controllerchange"}
  /\ LET m == Head(pageQ)
         ib1 == IF controller # 0
                THEN Post(inbox, controller, [type |-> "CLIENT_READY", id |-> 0])
                ELSE inbox
         out == RunReactions(waiting, [Outbox EXCEPT !.inbox = ib1])
     IN /\ pageQ' = Tail(pageQ)
        /\ pongsFrom' = IF m.type = "PONG" THEN [pongsFrom EXCEPT ![m.from] = @ + 1]
                        ELSE pongsFrom
        /\ IF IsPong(m.type)
           THEN /\ swReady' = resolveSwReady(swReady)
                /\ clientReady' = IF controller # 0
                                  THEN [clientReady EXCEPT ![controller] = @ + 1]
                                  ELSE clientReady
                /\ inbox' = out.inbox
                /\ fetchQ' = out.fetchQ
                /\ forwarded' = out.forwarded
                /\ reqs' = out.reqs
                /\ waiting' = <<>>
                /\ flushed' = flushed + Len(waiting)
           ELSE UNCHANGED <<swReady, clientReady, inbox, fetchQ, forwarded, reqs,
                            waiting, flushed>>
  /\ UNCHANGED <<build, swState, controller, issued, pingsPosted, pingsHandled,
                 pongsPosted, ccHandled, syncVars>>
  /\ UNCHANGED cacheVars
  /\ UNCHANGED restVars

NewReq(kind, path, method) ==
  [kind |-> kind, path |-> path, method |-> method, ctrl |-> 0,
   via |-> "pending", offline |-> FALSE, queued |-> FALSE,
   live |-> NoResp, resp |-> NoResp]

\* A search stored a result and hands it to the sync path: kind "fetch" is
\* searchService.ts (swReady.then(fetch('/api/sync'))), kind "bus" the
\* 'sync-request' event that the listener of serviceWorkerClient.ts forwards.
EmitSync(kind) ==
  LET id == issued + 1
      out0 == [Outbox EXCEPT !.reqs = Append(@, NewReq(kind, SyncPath, "POST"))]
      out == IF MustWait THEN out0 ELSE ForwardOne([id |-> id, kind |-> kind], out0)
  IN /\ issued' = id
     /\ waiting' = IF MustWait THEN Hold(waiting, [id |-> id, kind |-> kind])
                   ELSE waiting
     /\ inbox' = out.inbox
     /\ fetchQ' = out.fetchQ
     /\ forwarded' = out.forwarded
     /\ reqs' = out.reqs

SearchSync(kind) ==
  /\ issued < MaxSubmissions
  /\ EmitSync(kind)
  /\ UNCHANGED <<build, swState, controller, pageQ, swReady, historyVars, syncVars>>
  /\ UNCHANGED cacheVars
  /\ UNCHANGED restVars

(***************************************************************************)
(* Worker: message listeners.                                              *)
(***************************************************************************)
\* What the message listener of service-worker.ts posts back to the source
\* of message m. Its branches are SET_CONFIG, SET_DEBUG_MODE,
\* TRIGGER_FOREGROUND_SYNC and CACHE_NEW_ENTRY; there is no branch for PING,
\* CLIENT_READY or SYNC_DATA and no branch posts to event.source.
RepoReplies(m, v) == <<>>

WorkerMessage(v) ==
  /\ build = "repo"
  /\ inbox[v] # <<>>
  /\ LET m == Head(inbox[v])
         replies == RepoReplies(m, v)
     IN /\ inbox' = [inbox EXCEPT ![v] = Tail(@)]
        /\ pageQ' = pageQ \o replies
        /\ pingsHandled' = IF m.type = "PING" THEN [pingsHandled EXCEPT ![v] = @ + 1]
                           ELSE pingsHandled
        /\ pongsPosted' = [pongsPosted EXCEPT ![v] =
                             @ + Cardinality({i \in 1..Len(replies) :
                                                replies[i].type = "PONG"})]
  /\ UNCHANGED <<build, swState, controller, swReady, waiting, issued, reqs,
                 forwarded, fetchQ, pingsPosted, pongsFrom, clientReady,
                 ccHandled, flushed, syncVars>>
  /\ UNCHANGED cacheVars
  /\ UNCHANGED restVars

\* A worker build that implements the handshake: PING is answered with PONG
\* to the message source; other messages are consumed.
HandshakeReplies(m, v) ==
  IF m.type = "PING" THEN << [type |-> "PONG", from |-> v] >> ELSE <<>>

HandshakeWorkerMessage(v) ==
  /\ build = "handshake"
  /\ inbox[v] # <<>>
  /\ LET m == Head(inbox[v])
         replies == HandshakeReplies(m, v)
     IN /\ inbox' = [inbox EXCEPT ![v] = Tail(@)]
        /\ pageQ' = pageQ \o replies
        /\ pingsHandled' = IF m.type = "PING" THEN [pingsHandled EXCEPT ![v] = @ + 1]
                           ELSE pingsHandled
        /\ pongsPosted' = [pongsPosted EXCEPT ![v] = @ + Len(replies)]
  /\ UNCHANGED <<build, swState, controller, swReady, waiting, issued, reqs,
                 forwarded, fetchQ, pingsPosted, pongsFrom, clientReady,
                 ccHandled, flushed, syncVars>>
  /\ UNCHANGED cacheVars
  /\ UNCHANGED restVars

(***************************************************************************)
(* Network.                                                                *)
(***************************************************************************)
GoOffline ==
  /\ online
  /\ online' = FALSE
  /\ UNCHANGED <<lifecycleVars, pageVars, historyVars, now, queue, syncState,
                 drainStart, replayLog>>
  /\ UNCHANGED cacheVars
  /\ UNCHANGED restVars

GoOnline ==
  /\ ~online
  /\ online' = TRUE
  /\ UNCHANGED <<lifecycleVars, pageVars, historyVars, now, queue, syncState,
                 drainStart, replayLog>>
  /\ UNCHANGED cacheVars
  /\ UNCHANGED restVars

Tick ==
  /\ now + TickHours <= MaxClock
  /\ now' = now + TickHours
  /\ UNCHANGED <<lifecycleVars, pageVars, historyVars, online, queue, syncState,
                 drainStart, replayLog>>
  /\ UNCHANGED cacheVars
  /\ UNCHANGED restVars

(***************************************************************************)
(* Worker: the Workbox route and its background-sync queue.                *)
(***************************************************************************)
\* registerRoute's match callback.
RouteMatches(path, method) == path = RoutePath /\ method = "POST"

\* Queue.pushRequest: a record of the request, stamped with the current time,
\* is appended to the durable queue.
pushRequest(q, id) == Append(q, [id |-> id, ts |-> now])

\* Queue.pushRequest also registers the queue's sync tag.
registerSync(st) == IF st = "none" THEN "registered" ELSE st

\* NetworkOnly: the response of the route is the response of the network,
\* and a failed fetch rejects the handler (the client sees a network error).
NetworkOnly(live) == live

\* A fetch event of a controlled client. A request that no route of the
\* worker matches is not answered by the worker: the browser performs it.
FetchEvent ==
  /\ fetchQ # <<>>
  /\ LET id == Head(fetchQ)
         r == reqs[id]
         w == r.ctrl
     IN /\ fetchQ' = Tail(fetchQ)
        /\ IF w # 0 /\ build = "handshake"
           THEN \* the event is handled by a build that is not in the repository
                /\ reqs' = [reqs EXCEPT ![id].via = "foreign"]
                /\ UNCHANGED <<queue, syncState>>
           ELSE IF w # 0 /\ RouteMatches(r.path, r.method)
           THEN \* NetworkOnly with the BackgroundSyncPlugin (fetchDidFail)
                IF online
                THEN /\ \E s \in Statuses :
                          reqs' = [reqs EXCEPT ![id].via = "route",
                                               ![id].live = Http(s),
                                               ![id].resp = NetworkOnly(Http(s))]
                     /\ UNCHANGED <<queue, syncState>>
                ELSE /\ reqs' = [reqs EXCEPT ![id].via = "route",
                                             ![id].offline = TRUE,
                                             ![id].queued = TRUE,
                                             ![id].live = NetErr,
                                             ![id].resp = NetworkOnly(NetErr)]
                     /\ queue' = pushRequest(queue, id)
                     /\ syncState' = registerSync(syncState)
           ELSE \* not intercepted
                /\ IF online
                   THEN \E s \in Statuses :
                          reqs' = [reqs EXCEPT ![id].via = "network",
                                               ![id].resp = Http(s)]
                   ELSE reqs' = [reqs EXCEPT ![id].via = "network",
                                             ![id].offline = TRUE,
                                             ![id].resp = NetErr]
                /\ UNCHANGED <<queue, syncState>>
  /\ UNCHANGED <<lifecycleVars, pageQ, swReady, waiting, issued, forwarded,
                 historyVars, online, now, drainStart, replayLog>>
  /\ UNCHANGED cacheVars
  /\ UNCHANGED restVars

\* A window client in the worker's scope issues a request.
ClientFetch(path, method) ==
  /\ issued < MaxRequests
  /\ issued' = issued + 1
  /\ reqs' = Append(reqs, [NewReq("client", path, method) EXCEPT !.ctrl = controller])
  /\ fetchQ' = Append(fetchQ, issued + 1)
  /\ UNCHANGED <<lifecycleVars, pageQ, swReady, waiting, forwarded, historyVars,
                 syncVars>>
  /\ UNCHANGED cacheVars
  /\ UNCHANGED restVars

\* The platform signals that background sync is permissible (the queue's sync
\* tag is registered, or the last sync failed and is rescheduled): onSync starts.
SyncEvent ==
  /\ syncState \in {"registered", "failed"}
  /\ online
  /\ syncState' = "draining"
  /\ drainStart' = queue
  /\ UNCHANGED <<lifecycleVars, pageVars, historyVars, online, now, queue, replayLog>>
  /\ UNCHANGED cacheVars
  /\ UNCHANGED restVars

Expired(e) == (now - e.ts) * 60 > MaxRetentionTime

\* Queue.shiftRequest: removes and returns the first record that is not older
\* than maxRetentionTime; the expired records before it are dropped.
RECURSIVE shiftRequest(_)
shiftRequest(q) ==
  IF q = <<>> THEN [found |-> FALSE, entry |-> [id |-> 0, ts |-> 0], rest |-> <<>>]
  ELSE IF Expired(Head(q)) THEN shiftRequest(Tail(q))
  ELSE [found |-> TRUE, entry |-> Head(q), rest |-> Tail(q)]

\* Queue.unshiftRequest: the record is put at the head of the queue.
unshiftRequest(q, e) == <<e>> \o q

\* A drain that puts the failed record back at the tail of the queue.
ReplayFailedAtTail(rest, e) == [queue |-> Append(rest, e), syncState |-> "failed"]

\* onSync's catch: the record is put back and the error is re-thrown.
ReplayFailed(rest, e) == [queue |-> unshiftRequest(rest, e), syncState |-> "failed"]

\* onSync's try after `await fetch(entry.request)` resolved with status s:
\* the response is not inspected, the loop goes on with the next record.
Replayed(rest, e, s) == [queue |-> rest, syncState |-> "draining"]

\* One iteration of onSync's while loop.
DrainStep ==
  /\ syncState = "draining"
  /\ LET sh == shiftRequest(queue)
     IN IF ~sh.found
        THEN /\ queue' = sh.rest
             /\ syncState' = "none"
             /\ UNCHANGED replayLog
        ELSE IF online
        THEN \E s \in Statuses :
               /\ queue' = Replayed(sh.rest, sh.entry, s).queue
               /\ syncState' = Replayed(sh.rest, sh.entry, s).syncState
               /\ replayLog' = Append(replayLog, [id |-> sh.entry.id, status |-> s])
        ELSE /\ queue' = ReplayFailed(sh.rest, sh.entry).queue
             /\ syncState' = ReplayFailed(sh.rest, sh.entry).syncState
             /\ UNCHANGED replayLog
  /\ UNCHANGED <<lifecycleVars, pageVars, historyVars, online, now, drainStart>>
  /\ UNCHANGED cacheVars
  /\ UNCHANGED restVars

(***************************************************************************)
(* Page storage: cacheService.ts (result cache).                           *)
(***************************************************************************)
\* Date.now(), in milliseconds: the run starts one hour after the epoch, a
\* timestamp is never 0.
NowMs == (now + 1) * MsPerHour

\* The results handed to saveSearchResult: a root result has no parentId
\* and no followUpQuery; a reply names its parent (any id, its own included)
\* and carries the follow-up query that produced it.
Result(i, p) ==
  [id |-> i, parentId |-> p, followUpQuery |-> IF p = NoParent THEN 0 ELSE i]
Results == {Result(i, p) : i \in NodeIds, p \in {NoParent} \cup NodeIds}

Stub(r) == [kind |-> "stub", id |-> r.id, followUpQuery |-> r.followUpQuery]

\* localStorage.getItem(key) is not null
Stored(st, id) == st[id].kind = "entry"

\* A parent update that puts the new stub in front.
PrependStub(replies, stub) == <<stub>> \o replies

\* replies: [...(parent.value.replies || []), {id, followUpQuery}]
AppendStub(replies, stub) == Append(replies, stub)

\* A parent update that writes the parent as a new entry.
ParentRewritten(parent, stub) ==
  [parent EXCEPT !.replies = AppendStub(@, stub),
                 !.expires = NowMs + CACHE_TTL, !.timestamp = NowMs]

\* {...parent, value: updatedParent}: the envelope of the parent with the
\* stub appended to value.replies.
ParentEnvelope(parent, stub) == [parent EXCEPT !.replies = AppendStub(@, stub)]

\* saveSearchResult: writes the entry of the result, then, for a reply whose
\* parent key is present, rewrites the parent with the stub appended. The
\* parent keeps its own expires.
saveSearchResult(st, r) ==
  LET entry == [kind |-> "entry", parentId |-> r.parentId,
                followUpQuery |-> r.followUpQuery, replies |-> <<>>,
                expires |-> NowMs + CACHE_TTL, timestamp |-> NowMs]
      st1 == [st EXCEPT ![r.id] = entry]
  IN IF r.parentId # NoParent /\ Stored(st1, r.parentId)
     THEN [st1 EXCEPT ![r.parentId] = ParentEnvelope(@, Stub(r))]
     ELSE st1

\* An expiry test that treats the instant of expiry as expired.
ExpiredAtExpiry(e) == NowMs >= e.expires

\* Date.now() > entry.expires
CacheExpired(e) == NowMs > e.expires

\* getSearchResult returns a value
Live(st, id) == Stored(st, id) /\ ~CacheExpired(st[id])

\* getSearchResult: the store it leaves (an expired entry is removed).
getSearchResult(st, id) ==
  IF Stored(st, id) /\ CacheExpired(st[id]) THEN [st EXCEPT ![id] = Absent] ELSE st

\* The call never returns.
Diverges == [kind |-> "diverges"]
Null == [kind |-> "null"]

\* A property that is undefined: a root result has no parentId and no
\* followUpQuery.
Undefined == NoParent
ResultFields == {"id", "parentId", "followUpQuery"}

\* JSON.stringify(entry) as far as entry.value goes: a property whose value
\* is undefined is left out of the text.
JSONstringify(value) == [f \in {g \in DOMAIN value : value[g] # Undefined} |-> value[f]]

\* A read that gives null for a property the text does not have.
PropertyOrNull(json, f) == IF f \in DOMAIN json THEN json[f] ELSE -1

\* Reading a property of the object JSON.parse gives: undefined when the
\* text does not have it.
Property(json, f) == IF f \in DOMAIN json THEN json[f] ELSE Undefined

JSONparse(json) == [f \in ResultFields |-> Property(json, f)]

\* What getSearchResult(id) returns, replies left aside: entry.value as it
\* was written and read back, or null.
Returns(st, id) ==
  IF Live(st, id)
  THEN JSONparse(JSONstringify([id |-> id, parentId |-> st[id].parentId,
                                followUpQuery |-> st[id].followUpQuery]))
  ELSE Null

\* An expansion that puts null in the place of a reply it cannot read.
NullReply(reply) == Null

\* fullReply ? await buildThread(fullReply) : reply
KeepStub(reply) == reply

\* buildThread: every reply stub whose entry getSearchResult returns is
\* replaced by that entry's own thread, the others stay stubs. The code keeps
\* no set of the nodes it is expanding: when a node is reached from itself the
\* recursion does not end.
RECURSIVE buildThread(_, _, _)
buildThread(st, id, path) ==
  IF id \in path THEN Diverges
  ELSE LET e == st[id]
           populatedReplies ==
             [i \in 1..Len(e.replies) |->
                IF Live(st, e.replies[i].id)
                THEN buildThread(st, e.replies[i].id, path \cup {id})
                ELSE KeepStub(e.replies[i])]
       IN IF \E i \in 1..Len(e.replies) : populatedReplies[i].kind = "diverges"
          THEN Diverges
          ELSE [kind |-> "node", id |-> id, parentId |-> e.parentId,
                followUpQuery |-> e.followUpQuery, replies |-> populatedReplies]

\* getConversationThread: null when getSearchResult(rootId) is null.
getConversationThread(st, rootId) ==
  IF Live(st, rootId) THEN buildThread(st, rootId, {}) ELSE Null

\* The ids getSearchResult is called with during a thread expansion.
RECURSIVE Visited(_, _, _)
Visited(st, todo, seen) ==
  IF todo = {} THEN seen
  ELSE LET x == CHOOSE y \in todo : TRUE
           below == IF Live(st, x)
                    THEN {st[x].replies[i].id : i \in 1..Len(st[x].replies)}
                    ELSE {}
       IN Visited(st, (todo \ {x}) \cup (below \ (seen \cup {x})), seen \cup {x})

\* The page makes its cache calls one after the other: no call has returned
\* a value that its caller has not taken yet.
NoCall == lastGet = NoGet /\ thread = NoThread

\* Time passes between two cache calls.
CacheTick ==
  /\ NoCall
  /\ now + TickHours <= MaxClock
  /\ now' = now + TickHours
  /\ UNCHANGED <<lifecycleVars, pageVars, historyVars, online, queue, syncState,
                 drainStart, replayLog, cacheVars>>
  /\ UNCHANGED restVars

\* The record of a save: parentStored tells whether the key of the parent
\* was present when the parent update ran.
Saved(st, r) ==
  [id |-> r.id, parentId |-> r.parentId,
   parentStored |-> r.parentId # NoParent /\
                    (r.parentId = r.id \/ Stored(st, r.parentId))]

Save(r) ==
  /\ NoCall
  /\ Len(saveLog) < MaxSaves
  /\ store' = saveSearchResult(store, r)
  /\ saveLog' = Append(saveLog, Saved(store, r))
  /\ UNCHANGED <<lifecycleVars, pageVars, historyVars, syncVars, lastGet, thread,
                 history, histLog>>
  /\ UNCHANGED restVars

Get(id) ==
  /\ NoCall
  /\ store' = getSearchResult(store, id)
  /\ lastGet' = [id |-> id, had |-> Stored(store, id),
                 expires |-> IF Stored(store, id) THEN store[id].expires ELSE 0,
                 at |-> NowMs, hit |-> Live(store, id)]
  /\ UNCHANGED <<lifecycleVars, pageVars, historyVars, syncVars, saveLog, thread,
                 history, histLog>>
  /\ UNCHANGED restVars

GetThread(rootId) ==
  /\ NoCall
  /\ thread' = [root |-> rootId, at |-> now, result |-> getConversationThread(store, rootId)]
  /\ store' = LET seen == Visited(store, {rootId}, {})
              IN [id \in NodeIds |->
                    IF id \in seen THEN getSearchResult(store, id)[id] ELSE store[id]]
  /\ UNCHANGED <<lifecycleVars, pageVars, historyVars, syncVars, saveLog, lastGet,
                 history, histLog>>
  /\ UNCHANGED restVars

\* A key of the cache is removed from localStorage by something other than
\* cacheService (site data cleared by the user or the browser, devtools).
RemoveItem(id) ==
  /\ NoCall
  /\ Stored(store, id)
  /\ store' = [store EXCEPT ![id] = Absent]
  /\ UNCHANGED <<lifecycleVars, pageVars, historyVars, syncVars, saveLog, lastGet,
                 thread, history, histLog>>
  /\ UNCHANGED restVars

\* The caller takes the value a cache call returned.
TakeResult ==
  /\ ~NoCall
  /\ lastGet' = NoGet
  /\ thread' = NoThread
  /\ UNCHANGED <<lifecycleVars, pageVars, historyVars, syncVars, store, saveLog,
                 history, histLog>>
  /\ UNCHANGED restVars

(***************************************************************************)
(* The search history (cacheService.ts, key 'search-history').             *)
(***************************************************************************)
\* slice(0, 50) of saveSearchHistoryItem.
HistoryLimit == 50

\* A history item. Two consecutive ids carry the same query text: the id of an
\* item is the id of the first result of the search (SearchEngine.handleSearch)
\* and the same text has one id as a root search and another as a follow-up.
QueryOf(id) == (id + 1) \div 2
HistItem(id) == [id |-> id, query |-> QueryOf(id)]

KeepAll(h) == h
Truncate(h) == SubSeq(h, 1, IF Len(h) < HistoryLimit THEN Len(h) ELSE HistoryLimit)

\* getSearchHistory: the array as stored.
getSearchHistory(h) == h

\* saveSearchHistoryItem: [item, ...history.filter(h => h.id !== item.id)]
\* .slice(0, 50).
saveSearchHistoryItem(h, item) ==
  LET Other(x) == x.id # item.id
  IN  Truncate(<<item>> \o SelectSeq(getSearchHistory(h), Other))

HistorySave(item) ==
  /\ Len(histLog) < MaxHistSaves
  /\ history' = saveSearchHistoryItem(history, item)
  /\ histLog' = Append(histLog, item.id)
  /\ UNCHANGED <<lifecycleVars, pageVars, historyVars, syncVars, store, saveLog,
                 lastGet, thread>>
  /\ UNCHANGED restVars

\* Result ids are opaque strings: an id that no save has used yet is taken to
\* be the smallest such id.
SeenIds == {saveLog[i].id : i \in 1..Len(saveLog)} \cup
           ({saveLog[i].parentId : i \in 1..Len(saveLog)} \ {NoParent})
FirstUnseen(seen) ==
  IF NodeIds \ seen = {} THEN {}
  ELSE {CHOOSE i \in NodeIds \ seen : \A j \in NodeIds \ seen : i <= j}
NextResults ==
  {r \in Results :
     /\ r.id \in SeenIds \cup FirstUnseen(SeenIds)
     /\ r.parentId \in {NoParent} \cup SeenIds \cup {r.id}
                         \cup FirstUnseen(SeenIds \cup {r.id})}

(***************************************************************************)
(* Page: cacheSimilarityService.ts (similarity gateway).                   *)
(***************************************************************************)
RECURSIVE Pow2(_)
Pow2(n) == IF n = 0 THEN 1 ELSE 2 * Pow2(n - 1)

\* SIMILARITY_POLL_INTERVAL * Math.pow(2, attempt)
Backoff(attempt) == SIMILARITY_POLL_INTERVAL * Pow2(attempt)

\* A find call counts the reads of cachedQueryResults it has issued (polls)
\* and adds up the back-off times it has waited (waited, in ms).

\* findSimilarCachedResults returns n results.
FindReturns(f, n) == [f EXCEPT !.phase = "returned", !.n = n]

\* fetchCachedQueryResults is called for the attempt f.attempt.
IssuePoll(f) == [f EXCEPT !.phase = "poll", !.polls = @ + 1]

\* The for loop of pollForCachedResults goes on to its next iteration: the
\* next read, or, after MAX_POLL_ATTEMPTS iterations, {data: null, error:
\* CACHE-404}, which findSimilarCachedResults throws and its catch turns
\* into [].
NextAttempt(f) ==
  LET g == [f EXCEPT !.attempt = @ + 1]
  IN IF g.attempt < MAX_POLL_ATTEMPTS THEN IssuePoll(g) ELSE FindReturns(g, 0)

OnlyFind ==
  UNCHANGED <<lifecycleVars, pageVars, historyVars, syncVars, cacheVars, so,
              fingerprint, emitted, searches, wsyncVars, filterVars, followUpVars>>

\* await sha512(query), before the try block: a failure of the digest
\* (crypto.subtle missing or rejecting) is rethrown by sha512 and rejects the
\* promise of findSimilarCachedResults. Then the configuration test.
HashDone(o) ==
  /\ scg.phase = "hash"
  /\ scg' = CASE o = "fail" -> [scg EXCEPT !.phase = "thrown"]
              [] o = "unconfigured" -> FindReturns(scg, 0)
              [] OTHER -> [scg EXCEPT !.phase = "post"]
  /\ OnlyFind

\* The POST to the similarity ingress is answered (or fails): not ok throws
\* WEBHOOK-500, a network failure throws too, and the catch returns [].
IngressResponse(r) ==
  /\ scg.phase = "post"
  /\ scg' = IF Ok(r) THEN IssuePoll(scg) ELSE FindReturns(scg, 0)
  /\ OnlyFind

\* The read of one poll attempt is answered. A hit ends the polling; a miss
\* starts the back-off timer; an error is thrown inside the try of the loop
\* body, past the back-off, and caught there: the next iteration starts at
\* once.
PollResponse(o) ==
  /\ scg.phase = "poll"
  /\ scg' = CASE o = "hit" -> [scg EXCEPT !.phase = "entries"]
              [] o = "miss" -> [scg EXCEPT !.phase = "wait"]
              [] OTHER -> NextAttempt(scg)
  /\ OnlyFind

\* The back-off timer fires.
BackoffElapsed ==
  /\ scg.phase = "wait"
  /\ scg' = NextAttempt([scg EXCEPT !.waited = @ + Backoff(scg.attempt)])
  /\ OnlyFind

\* fetchCacheEntries is answered: an error throws CACHE-500, no data returns
\* [].
EntriesResponse(o) ==
  /\ scg.phase = "entries"
  /\ scg' = IF o = "rows" THEN [scg EXCEPT !.phase = "results"] ELSE FindReturns(scg, 0)
  /\ OnlyFind

\* fetchUserResults is answered with rows: userResults.slice(0, 5).map(...).
ResultsRows(rows) ==
  /\ scg.phase = "results"
  /\ scg' = FindReturns(scg, IF rows < SimilarLimit THEN rows ELSE SimilarLimit)
  /\ OnlyFind

\* fetchUserResults is answered with an error, without data or without rows.
ResultsFailed ==
  /\ scg.phase = "results"
  /\ scg' = FindReturns(scg, 0)
  /\ OnlyFind

\* The caller of the search gives the call up while the similarity gateway
\* is at work. findSimilarCachedResults takes {query, userId} and no signal.
CallerAbort ==
  /\ scg.phase \in {"hash", "post", "poll", "wait", "entries", "results"}
  /\ ~scg.aborted
  /\ scg' = [scg EXCEPT !.aborted = TRUE]
  /\ OnlyFind

(***************************************************************************)
(* Page: the search orchestrator, searchWithDeepSeek.                      *)
(*   kind "fetch": src/src/services/searchService.ts (query, parentResult) *)
(*   kind "bus":   the searchService that dispatches 'sync-request' and    *)
(*                 consults the similarity gateway (query, parentResult,   *)
(*                 userId)                                                 *)
(***************************************************************************)
\* generateQueryHash: a 32-bit hash of the query text, as the id 'root-<hash>';
\* different texts can have the same hash.
generateQueryHash(q) == ((q - 1) % HashSpace) + 1

\* cacheKey = parentResult ? parentResult.id : generateQueryHash(query)
CacheKey(q, parent) == IF parent # NoParent THEN parent ELSE generateQueryHash(q)

\* `${parentResult.id}-${Date.now()}` in searches made one after the other,
\* Date.now() having moved on between them: an id no root has and no save
\* has used.
FreshReplyIds ==
  LET free == {i \in NodeIds : i > HashSpace /\ i \notin SeenIds}
  IN IF free = {} THEN {} ELSE {CHOOSE i \in free : \A j \in free : i <= j}

\* cachedThread.replies?.find(reply => reply.followUpQuery === query)
MatchingReplies(t, q) ==
  {i \in 1..Len(t.replies) : t.replies[i].followUpQuery = q}

\* return [cachedThread] / return [matchingReply]: the id of the result.
Found(t, q, parent) ==
  IF parent = NoParent THEN t.id
  ELSE LET i == CHOOSE i \in MatchingReplies(t, q) :
                  \A j \in MatchingReplies(t, q) : i <= j
       IN t.replies[i].id

\* An orchestrator that never takes the answer of the local store.
IgnoresLocal(t, q, parent) == FALSE

\* The local store answers the search: a root query takes the thread's root,
\* a follow-up the reply of the parent's thread made with the same query.
LocalHit(t, q, parent) ==
  /\ t.kind = "node"
  /\ parent # NoParent => MatchingReplies(t, q) # {}

\* An orchestrator that leaves the similarity gateway out.
SkipsSimilar(kind, user) == FALSE

\* if (userId): only the searchWithDeepSeek with a userId parameter has the
\* similarity tier.
ConsultsSimilar(kind, user) == kind = "bus" /\ user

\* The store a thread expansion leaves: getSearchResult removes the expired
\* entries it meets.
ThreadStore(st, rootId) ==
  LET seen == Visited(st, {rootId}, {})
  IN [id \in NodeIds |-> IF id \in seen THEN getSearchResult(st, id)[id] ELSE st[id]]

\* The single result returned when the LLM call failed: id 'fallback-...',
\* confidence 0, category 'Error', sources '' or [].
Rethrown == [kind |-> "thrown", n |-> 0, category |-> "none", confidence |-> 0,
             sources |-> 0]
Fallback == [kind |-> "fallback", n |-> 1, category |-> "Error", confidence |-> 0,
             sources |-> 0]

\* The body of a sync submission. searchService.ts posts {webhookUrl, payload:
\* processedResults}; the 'sync-request' detail is {webhookUrl, payload:
\* {results, userId: userId || 'unknown', fingerprintId:
\* localStorage.getItem('searchGptFingerprintId') || 'unknown'}}.
Body(kind, user, n) ==
  IF kind = "fetch"
  THEN [webhookUrl |-> TRUE, payload |-> "results", results |-> n,
        userId |-> "none", fingerprintId |-> "none"]
  ELSE [webhookUrl |-> TRUE, payload |-> "object", results |-> n,
        userId |-> IF user THEN "user" ELSE "unknown",
        fingerprintId |-> IF fingerprint THEN "stored" ELSE "unknown"]

Kinds == {"fetch", "bus"}
LlmOutcomes == {"ok", "empty", "status", "neterr", "timeout"}

\* searchWithDeepSeek up to its first await that leaves the page: the local
\* store is consulted; on a miss the similarity gateway is called when there
\* is a userId, the LLM edge function otherwise.
StartSearch(kind, q, parent, user) ==
  /\ so.phase = "idle"
  /\ NoCall
  /\ searches < MaxSearches
  /\ kind = "fetch" => ~user
  /\ parent # NoParent => FreshReplyIds # {}
  /\ LET key == CacheKey(q, parent)
         t == getConversationThread(store, key)
         call == [NoSearch EXCEPT !.kind = kind, !.query = q, !.parent = parent,
                                  !.user = user, !.tiers = <<"local">>]
     IN /\ so' = IF t.kind = "diverges" THEN [call EXCEPT !.phase = "hung"]
                 ELSE IF LocalHit(t, q, parent)
                 THEN [call EXCEPT !.phase = "done",
                                   !.ret = [kind |-> "local", n |-> 1,
                                            id |-> Found(t, q, parent)]]
                 ELSE IF ConsultsSimilar(kind, user)
                 THEN [call EXCEPT !.phase = "similar", !.tiers = Append(@, "similar")]
                 ELSE [call EXCEPT !.phase = "llm", !.tiers = Append(@, "llm")]
        /\ scg' = IF t.kind # "diverges" /\ ~LocalHit(t, q, parent)
                     /\ ConsultsSimilar(kind, user)
                  THEN [NoFind EXCEPT !.phase = "hash"] ELSE NoFind
        /\ store' = ThreadStore(store, key)
  /\ searches' = searches + 1
  /\ UNCHANGED <<lifecycleVars, pageVars, historyVars, syncVars, saveLog, lastGet,
                 thread, history, histLog, fingerprint, emitted>>
  /\ UNCHANGED wsyncVars
  /\ UNCHANGED filterVars
  /\ UNCHANGED followUpVars

\* await findSimilarCachedResults(...) settles: a rejection rejects the
\* search (there is no try around the call), a non-empty answer is returned,
\* an empty one leads to the LLM call.
AfterFind ==
  /\ so.phase = "similar"
  /\ scg.phase \in {"returned", "thrown"}
  /\ so' = IF scg.phase = "thrown"
           THEN [so EXCEPT !.phase = "done", !.ret = [kind |-> "thrown", n |-> 0]]
           ELSE IF scg.n > 0
           THEN [so EXCEPT !.phase = "done", !.ret = [kind |-> "similar", n |-> scg.n]]
           ELSE [so EXCEPT !.phase = "llm", !.tiers = Append(@, "llm")]
  /\ scg' = NoFind
  /\ UNCHANGED <<lifecycleVars, pageVars, historyVars, syncVars, cacheVars,
                 fingerprint, emitted, searches>>
  /\ UNCHANGED wsyncVars
  /\ UNCHANGED filterVars
  /\ UNCHANGED followUpVars

\* The POST to the LLM edge function settles. "ok": a 2xx answer with a
\* result; "empty": a 2xx answer without results; "status": a non-2xx answer;
\* "neterr": the fetch rejects; "timeout": the 60 s timer aborts the fetch.
\* VITE_CACHE_WEBHOOK_URL is set, as in every deployment that synchronises.
LlmResponse(o) ==
  /\ so.phase = "llm"
  /\ LET r == [id |-> IF so.parent # NoParent
                      THEN CHOOSE i \in FreshReplyIds : TRUE
                      ELSE generateQueryHash(so.query),
               parentId |-> so.parent,
               followUpQuery |-> IF so.parent # NoParent THEN so.query ELSE 0]
         saves == o = "ok"
         emits == o = "ok" \/ (o = "empty" /\ so.kind = "fetch")
         n == IF o = "ok" THEN 1 ELSE 0
     IN /\ store' = IF saves THEN saveSearchResult(store, r) ELSE store
        /\ saveLog' = IF saves THEN Append(saveLog, Saved(store, r)) ELSE saveLog
        /\ IF emits
           THEN /\ EmitSync(so.kind)
                /\ emitted' = Append(emitted, Body(so.kind, so.user, n))
           ELSE UNCHANGED <<issued, waiting, inbox, fetchQ, forwarded, reqs, emitted>>
        /\ so' = [so EXCEPT !.phase = "done", !.llm = o,
                            !.ret = IF o = "ok" \/ (o = "empty" /\ so.kind = "fetch")
                                    THEN [kind |-> "api", n |-> n]
                                    ELSE Fallback]
  /\ UNCHANGED <<build, swState, controller, pageQ, swReady, historyVars, syncVars,
                 lastGet, thread, history, histLog, scg, fingerprint, searches>>
  /\ UNCHANGED wsyncVars
  /\ UNCHANGED filterVars
  /\ UNCHANGED followUpVars

\* The caller takes what the search returned.
TakeSearchResult ==
  /\ so.phase = "done"
  /\ so' = NoSearch
  /\ UNCHANGED <<lifecycleVars, pageVars, historyVars, syncVars, cacheVars, scg,
                 fingerprint, emitted, searches>>
  /\ UNCHANGED wsyncVars
  /\ UNCHANGED filterVars
  /\ UNCHANGED followUpVars

\* Time passes between two searches.
SearchTick ==
  /\ so.phase = "idle"
  /\ CacheTick

\* The user or the browser clears the site's localStorage.
ClearSiteData ==
  /\ so.phase = "idle"
  /\ NoCall
  /\ fingerprint
  /\ fingerprint' = FALSE
  /\ store' = EmptyStore
  /\ history' = <<>>
  /\ UNCHANGED <<lifecycleVars, pageVars, historyVars, syncVars, saveLog, lastGet,
                 thread, histLog, so, scg, emitted, searches>>
  /\ UNCHANGED wsyncVars
  /\ UNCHANGED filterVars
  /\ UNCHANGED followUpVars

(***************************************************************************)
(* Worker: syncCacheData (service-worker.ts 72-152) and the page's         *)
(* listeners for what it posts (App.tsx, main.tsx).                        *)
(***************************************************************************)
\* client.postMessage({ type: 'SYNC_SUCCESS_NOTIFICATION' })
SuccessMessage == [type |-> "SYNC_SUCCESS_NOTIFICATION"]

\* App.tsx holds two versions of the component: the one that logs through
\* logger (lines 1-68) and the one that logs through console (lines 70-130).
Apps == {"logger", "console"}

\* The message types App's handleMessage acts on, and those it shows the
\* "Sync Successful" toast for.
AppHandles(app) ==
  IF app = "logger" THEN {"SYNC_SUCCESS", "SYNC_RECEIVED"}
                    ELSE {"SYNC_SUCCESS_NOTIFICATION"}
AppToasts(app) ==
  IF app = "logger" THEN {"SYNC_SUCCESS"} ELSE {"SYNC_SUCCESS_NOTIFICATION"}

\* getAllCacheEntries: every conv_ entry with a value and a timestamp,
\* expired or not.
getAllCacheEntries(st) == {id \in NodeIds : Stored(st, id) /\ st[id].timestamp # 0}

\* filteredData: the entries with entryTimestamp > lastTs.
FilteredData(st, data, lastTs) == {id \in data : st[id].timestamp > lastTs}

\* A sync that moves the cursor whatever the webhook answered.
AdvancesAlways(r) == TRUE

\* if (response.ok) { await updateLastSyncTimestamp(Date.now()); ... }
Advances(r) == Ok(r)

OnlyWorkerSync ==
  UNCHANGED <<lifecycleVars, pageVars, historyVars, syncVars, cacheVars, searchVars,
              filterVars, followUpVars>>

\* The calls in progress once call k has returned.
Returned(k) == SubSeq(cacheSync, 1, k - 1) \o SubSeq(cacheSync, k + 1, Len(cacheSync))

\* The worker's message listener handles SET_CONFIG (posted by main.tsx).
SetConfig ==
  /\ ~webhookUrl
  /\ webhookUrl' = TRUE
  /\ UNCHANGED <<lastSyncTimestamp, cacheSync, finished, syncs, notices, handled,
                 accepted>>
  /\ OnlyWorkerSync

\* The browser stops the idle worker and starts it again for the next event:
\* the module is evaluated anew, let webhookUrl = '' (line 34). No activate
\* event is fired, so the page is not told to send SET_CONFIG again.
WorkerRestart ==
  /\ webhookUrl
  /\ cacheSync = <<>>
  /\ webhookUrl' = FALSE
  /\ UNCHANGED <<lastSyncTimestamp, cacheSync, finished, syncs, notices, handled,
                 accepted>>
  /\ OnlyWorkerSync

\* syncCacheData is called: by the message listener for CACHE_NEW_ENTRY or
\* TRIGGER_FOREGROUND_SYNC, or by the 'sync' listener; a call does not wait
\* for an earlier one. Without a webhookUrl it returns; otherwise it posts
\* REQUEST_CACHE_DATA to the window clients.
StartSync(trigger) ==
  /\ syncs < MaxSyncs
  /\ syncs' = syncs + 1
  /\ IF webhookUrl
     THEN /\ cacheSync' = Append(cacheSync, [NoSync EXCEPT !.phase = "request",
                                                           !.trigger = trigger])
          /\ UNCHANGED finished
     ELSE /\ finished' = [NoSync EXCEPT !.phase = "done", !.trigger = trigger,
                                        !.outcome = "unconfigured"]
          /\ UNCHANGED cacheSync
  /\ UNCHANGED <<webhookUrl, lastSyncTimestamp, notices, handled, accepted>>
  /\ OnlyWorkerSync

\* requestCacheDataFromMainThread of call k settles. "entries": the page
\* answered with getAllCacheEntries(); then the cursor is read and the entries
\* newer than it are kept; with none the call returns, otherwise they are
\* posted to the webhook. "error": the page reported an error, no window
\* client was found or the 10 s timer fired; the outer catch logs it.
CacheDataReply(k, o) ==
  /\ k \in DOMAIN cacheSync
  /\ cacheSync[k].phase = "request"
  /\ LET filteredData ==
           FilteredData(store, getAllCacheEntries(store), lastSyncTimestamp)
     IN IF o = "error"
        THEN /\ finished' = [cacheSync[k] EXCEPT !.phase = "done",
                                                 !.outcome = "nodata"]
             /\ cacheSync' = Returned(k)
        ELSE IF filteredData = {}
        THEN /\ finished' = [cacheSync[k] EXCEPT !.phase = "done",
                                                 !.outcome = "nothing",
                                                 !.prev = lastSyncTimestamp]
             /\ cacheSync' = Returned(k)
        ELSE /\ cacheSync' = [cacheSync EXCEPT ![k].phase = "post",
                                               ![k].payload = filteredData,
                                               ![k].prev = lastSyncTimestamp]
             /\ UNCHANGED finished
  /\ UNCHANGED <<webhookUrl, lastSyncTimestamp, syncs, notices, handled, accepted>>
  /\ OnlyWorkerSync

\* The POST of call k to the webhook settles. On response.ok the cursor is
\* set to Date.now() (db: the IndexedDB write succeeds; a failure is logged
\* and swallowed) and SYNC_SUCCESS_NOTIFICATION is posted to every window
\* client. Otherwise the inner catch rethrows and the outer catch (line 148)
\* logs: nothing is put in the background-sync queue, which only the route's
\* plugin fills.
WebhookResponse(k, r, db) ==
  /\ k \in DOMAIN cacheSync
  /\ cacheSync[k].phase = "post"
  /\ finished' = [cacheSync[k] EXCEPT !.phase = "done", !.resp = r,
                    !.outcome = IF Ok(r) THEN "synced" ELSE "failed"]
  /\ cacheSync' = Returned(k)
  /\ lastSyncTimestamp' = IF Advances(r) /\ db THEN NowMs ELSE lastSyncTimestamp
  /\ notices' = IF Ok(r) THEN Append(notices, SuccessMessage) ELSE notices
  /\ accepted' = IF Ok(r) THEN accepted \cup cacheSync[k].payload ELSE accepted
  /\ UNCHANGED <<webhookUrl, syncs, handled>>
  /\ OnlyWorkerSync

\* The page's 'message' listeners get a message of the worker: App's
\* handleMessage acts on the types it knows; the listener of main.tsx only
\* logs SYNC_SUCCESS_NOTIFICATION.
PageNotice(app) ==
  /\ notices # <<>>
  /\ notices' = Tail(notices)
  /\ handled' = handled \cup {[type |-> Head(notices).type, app |-> app,
                               recognised |-> Head(notices).type \in AppHandles(app),
                               toast |-> Head(notices).type \in AppToasts(app)]}
  /\ UNCHANGED <<webhookUrl, lastSyncTimestamp, cacheSync, finished, syncs, accepted>>
  /\ OnlyWorkerSync

(***************************************************************************)
(* Worker: the filter of syncCacheData (service-worker.ts 88-106) over any *)
(* cache data, and toMillis (timestampUtils.ts).                           *)
(***************************************************************************)
\* The values a timestamp property can have: none, a number, a date string
\* Date.parse reads (ms is what it reads), a string it does not (NaN).
NaN == -1
NoStamp == [kind |-> "undefined", ms |-> 0]
Number(n) == [kind |-> "number", ms |-> n]
DateString(n) == [kind |-> "string", ms |-> n]
Stamps ==
  {NoStamp, DateString(NaN)} \cup {Number(n) : n \in 0..MaxStamp}
    \cup {DateString(n) : n \in 1..MaxStamp}
ValueStamps == {NoStamp, DateString(NaN), Number(MaxStamp)}

\* The cache entries a page can answer with: without a value, or with a value
\* that may carry a timestamp of its own.
CacheEntries ==
  {[hasValue |-> FALSE, timestamp |-> t, valueTimestamp |-> NoStamp] : t \in {Number(MaxStamp)}}
    \cup {[hasValue |-> TRUE, timestamp |-> t, valueTimestamp |-> v] :
            t \in Stamps, v \in ValueStamps}

\* toMillis(input, 0)
toMillis(input) ==
  IF input.kind = "number" THEN input.ms
  ELSE IF input.kind = "string" THEN (IF input.ms = NaN THEN 0 ELSE input.ms)
  ELSE 0

\* JavaScript's truth of a timestamp: undefined and 0 are false, every
\* string that is not empty is true.
Truthy(input) == input.kind = "string" \/ (input.kind = "number" /\ input.ms # 0)

\* entry.timestamp ? toMillis(entry.timestamp, 0)
\*   : (entry.value.timestamp ? toMillis(entry.value.timestamp, 0) : 0)
entryTimestamp(entry) ==
  IF Truthy(entry.timestamp) THEN toMillis(entry.timestamp)
  ELSE IF Truthy(entry.valueTimestamp) THEN toMillis(entry.valueTimestamp)
  ELSE 0

\* A filter that also keeps the entries written at the cursor.
NotOlder(entryTs, lastTs) == entryTs >= lastTs

\* if (entryTimestamp > lastTs)
Newer(entryTs, lastTs) == entryTs > lastTs

\* The for...of loop over cacheData.
RECURSIVE FilterLoop(_, _)
FilterLoop(data, lastTs) ==
  IF data = <<>> THEN <<>>
  ELSE LET entry == Head(data)
           rest == FilterLoop(Tail(data), lastTs)
       IN IF ~entry.hasValue THEN rest
          ELSE IF Newer(entryTimestamp(entry), lastTs) THEN <<entry>> \o rest
          ELSE rest

OnlyFilter ==
  UNCHANGED <<lifecycleVars, pageVars, historyVars, syncVars, cacheVars, searchVars,
              wsyncVars, followUpVars>>

\* The page's answer to REQUEST_CACHE_DATA is built, entry by entry.
ReceiveEntry(entry) ==
  /\ ~filterRun.ran
  /\ Len(cacheData) < MaxEntries
  /\ cacheData' = Append(cacheData, entry)
  /\ UNCHANGED filterRun
  /\ OnlyFilter

\* syncCacheData from the read of the cursor to the POST: the loop runs, and
\* the POST is made if (filteredData.length > 0).
RunFilter(lastSync) ==
  /\ ~filterRun.ran
  /\ LET filteredData == FilterLoop(cacheData, toMillis(Number(lastSync)))
     IN filterRun' = [ran |-> TRUE, lastTs |-> lastSync,
                      filteredData |-> filteredData,
                      posted |-> Len(filteredData) > 0]
  /\ UNCHANGED cacheData
  /\ OnlyFilter

(***************************************************************************)
(* Page: follow-up searches in flight together (searchService.ts). Each    *)
(* call of searchWithDeepSeek awaits the LLM on its own; the id of a       *)
(* follow-up result is made when the answer is processed.                  *)
(***************************************************************************)
\* `${parentResult.id}-${Date.now()}`: the text is the same for the same
\* parent in the same millisecond, and a new one otherwise.
ReplyId(parent, ms) ==
  LET same == {p \in produced : p.parent = parent /\ p.ms = ms}
  IN IF same # {} THEN {p.id : p \in same} ELSE FreshReplyIds

\* searchWithDeepSeek(query, parentResult) up to the LLM call: the parent's
\* thread holds no reply made with this query.
StartFollowUp(parent, q) ==
  /\ NoCall
  /\ Len(pending) < MaxPending
  /\ Len(saveLog) + Len(pending) < MaxSaves
  /\ Live(store, parent)
  /\ LET t == getConversationThread(store, parent)
     IN t.kind = "node" /\ ~LocalHit(t, q, parent)
  /\ \A i \in 1..Len(pending) : pending[i] # [parent |-> parent, query |-> q]
  /\ pending' = Append(pending, [parent |-> parent, query |-> q])
  /\ UNCHANGED <<produced, clockMs>>
  /\ UNCHANGED <<lifecycleVars, pageVars, historyVars, syncVars, cacheVars, searchVars,
                 wsyncVars, filterVars>>

\* The LLM's answer to the k-th search in flight is processed: the result
\* gets its id and is saved.
FollowUpResponse(k) ==
  /\ NoCall
  /\ k \in DOMAIN pending
  /\ Len(saveLog) < MaxSaves
  /\ \E id \in ReplyId(pending[k].parent, clockMs) :
       LET r == [id |-> id, parentId |-> pending[k].parent,
                 followUpQuery |-> pending[k].query]
       IN /\ store' = saveSearchResult(store, r)
          /\ saveLog' = Append(saveLog, Saved(store, r))
          /\ produced' = produced \cup {[parent |-> pending[k].parent, ms |-> clockMs,
                                         query |-> pending[k].query, id |-> id]}
  /\ pending' = SubSeq(pending, 1, k - 1) \o SubSeq(pending, k + 1, Len(pending))
  /\ UNCHANGED clockMs
  /\ UNCHANGED <<lifecycleVars, pageVars, historyVars, syncVars, lastGet, thread,
                 history, histLog, searchVars, wsyncVars, filterVars>>

\* A millisecond passes.
MsTick ==
  /\ clockMs < MaxMs
  /\ clockMs' = clockMs + 1
  /\ UNCHANGED <<pending, produced>>
  /\ UNCHANGED <<lifecycleVars, pageVars, historyVars, syncVars, cacheVars, searchVars,
                 wsyncVars, filterVars>>

(***************************************************************************)
(* Specifications.                                                         *)
(***************************************************************************)
Next ==
  \/ \E v \in Versions : Deploy(v)
  \/ \E v \in Versions : Install(v)
  \/ \E v \in Versions : Activate(v)
  \/ \E v \in Versions : Claim(v)
  \/ \E v \in Versions : WorkerMessage(v)
  \/ \E v \in Versions : HandshakeWorkerMessage(v)
  \/ OnServiceWorkerReady
  \/ OnControllerChange
  \/ OnMessage
  \/ \E kind \in {"fetch", "bus"} : SearchSync(kind)
  \/ FetchEvent

Spec == Init /\ [][Next]_vars

\* Worker updates and the handshake alone. The browser dispatches the install
\* and activate events of a registered worker, and clients.claim() settles.
UpdateNext ==
  \/ \E v \in Versions : Deploy(v)
  \/ \E v \in Versions : Install(v)
  \/ \E v \in Versions : Activate(v)
  \/ \E v \in Versions : Claim(v)
  \/ \E v \in Versions : WorkerMessage(v)
  \/ \E v \in Versions : HandshakeWorkerMessage(v)
  \/ OnServiceWorkerReady
  \/ OnControllerChange
  \/ OnMessage

UpdateSpec ==
  /\ Init
  /\ [][UpdateNext]_vars
  /\ \A v \in Versions :
       WF_vars(Install(v)) /\ WF_vars(Activate(v)) /\ WF_vars(Claim(v))

\* The page's result cache: saves, reads, thread expansions, and the clock.
CacheInit == SyncInit /\ online = TRUE

CacheNext ==
  \/ \E r \in NextResults : Save(r)
  \/ \E id \in SeenIds \cup FirstUnseen(SeenIds) : Get(id)
  \/ \E id \in SeenIds \cup FirstUnseen(SeenIds) : GetThread(id)
  \/ TakeResult
  \/ CacheTick

CacheSpec == CacheInit /\ [][CacheNext]_vars

\* Threads over a cache whose keys can also disappear one by one.
ThreadNext ==
  \/ \E r \in NextResults : Save(r)
  \/ \E id \in SeenIds \cup FirstUnseen(SeenIds) : GetThread(id)
  \/ \E id \in NodeIds : RemoveItem(id)
  \/ TakeResult

ThreadSpec == CacheInit /\ [][ThreadNext]_vars

\* Saves alone, with the clock: what one saveSearchResult call writes.
SaveNext ==
  \/ \E r \in NextResults : Save(r)
  \/ CacheTick

SaveSpec == CacheInit /\ [][SaveNext]_vars

\* The search history alone. Item ids are opaque strings: an id that no save
\* has used yet is taken to be the smallest such id.
HistIds == {histLog[i] : i \in 1..Len(histLog)}
HistNextIds ==
  {Cardinality(HistIds) + 1} \cup
  (IF Len(histLog) - Cardinality(HistIds) < MaxResaves
   THEN HistIds \cap (1..MaxResaveId) ELSE {})

HistoryNext == \E id \in HistNextIds : HistorySave(HistItem(id))

HistorySpec == CacheInit /\ [][HistoryNext]_vars

\* Searches one after the other: the orchestrator, the clock, the local
\* store, and a similarity gateway whose remote store answers every read.
\* A follow-up is made on a result that was saved before.
SearchNext ==
  \/ \E kind \in Kinds, q \in Queries, parent \in {NoParent} \cup SeenIds,
        user \in BOOLEAN : StartSearch(kind, q, parent, user)
  \/ \E o \in {"ok", "unconfigured", "fail"} : HashDone(o)
  \/ \E r \in {Http(200), Http(500)} : IngressResponse(r)
  \/ \E o \in {"hit", "miss"} : PollResponse(o)
  \/ BackoffElapsed
  \/ \E o \in {"rows", "none"} : EntriesResponse(o)
  \/ \E rows \in {1} : ResultsRows(rows)
  \/ ResultsFailed
  \/ AfterFind
  \/ \E o \in LlmOutcomes : LlmResponse(o)
  \/ TakeSearchResult
  \/ SearchTick
  \/ ClearSiteData

SearchSpec == CacheInit /\ [][SearchNext]_vars

\* The similarity gateway in full: searches with a userId, every answer the
\* ingress and the remote store can give, and a caller that gives up.
FindNext ==
  \/ \E q \in Queries, parent \in {NoParent} \cup SeenIds :
        searches < MaxFinds /\ StartSearch("bus", q, parent, TRUE)
  \/ \E o \in {"ok", "unconfigured", "fail"} : HashDone(o)
  \/ \E r \in {Http(200), Http(500), NetErr} : IngressResponse(r)
  \/ \E o \in {"hit", "miss", "error"} : PollResponse(o)
  \/ BackoffElapsed
  \/ \E o \in {"rows", "none"} : EntriesResponse(o)
  \/ \E rows \in {1, SimilarLimit + 1} : ResultsRows(rows)
  \/ ResultsFailed
  \/ CallerAbort
  \/ AfterFind
  \/ \E o \in LlmOutcomes : LlmResponse(o)
  \/ TakeSearchResult

FindSpec == CacheInit /\ [][FindNext]_vars

\* One search without a userId over a store whose keys can also disappear
\* one by one.
StaleNext ==
  \/ \E r \in NextResults : so.phase = "idle" /\ Save(r)
  \/ \E id \in NodeIds : so.phase = "idle" /\ RemoveItem(id)
  \/ \E q \in Queries, parent \in {NoParent} \cup SeenIds :
        searches < MaxFinds /\ StartSearch("fetch", q, parent, FALSE)
  \/ \E o \in LlmOutcomes : LlmResponse(o)
  \/ TakeSearchResult

StaleSpec == CacheInit /\ [][StaleNext]_vars

\* The worker's cache sync: the page saves results, time passes, syncs are
\* triggered and answered.
WorkerSyncNext ==
  \/ \E i \in FirstUnseen(SeenIds) : Save(Result(i, NoParent))
  \/ CacheTick
  \/ SetConfig
  \/ WorkerRestart
  \/ \E trigger \in {"CACHE_NEW_ENTRY", "TRIGGER_FOREGROUND_SYNC", "sync"} :
        StartSync(trigger)
  \/ \E k \in 1..MaxSyncs, o \in {"entries", "error"} : CacheDataReply(k, o)
  \/ \E k \in 1..MaxSyncs, r \in {Http(200), Http(500), NetErr}, db \in BOOLEAN :
        WebhookResponse(k, r, db)
  \/ \E app \in Apps : PageNotice(app)

WorkerSyncSpec == CacheInit /\ [][WorkerSyncNext]_vars

\* The filter of syncCacheData over every cache data within the bounds.
FilterNext ==
  \/ \E entry \in CacheEntries : ReceiveEntry(entry)
  \/ \E lastSync \in 0..MaxStamp : RunFilter(lastSync)

FilterSpec == CacheInit /\ [][FilterNext]_vars

\* Follow-up searches on saved roots, in flight together.
FollowUpNext ==
  \/ \E q \in Queries : Save(Result(generateQueryHash(q), NoParent))
  \/ \E parent \in 1..HashSpace, q \in Queries : StartFollowUp(parent, q)
  \/ \E k \in 1..MaxPending : FollowUpResponse(k)
  \/ MsTick

FollowUpSpec == CacheInit /\ [][FollowUpNext]_vars

SyncNext ==
  \/ \E path \in Paths, method \in Methods : ClientFetch(path, method)
  \/ FetchEvent
  \/ SyncEvent
  \/ DrainStep
  \/ Tick
  \/ GoOffline
  \/ GoOnline

SyncSpec == SyncInit /\ [][SyncNext]_vars

(***************************************************************************)
(* Properties.                                                             *)
(***************************************************************************)
PongsReceived == Sum(pongsFrom)

\* C1 (as claimed): every sync submission the page POSTs while the network is
\* offline is answered 200 and leaves one durable record in the worker's
\* queue (the first sentence of the claim; the eventual FIFO delivery of the
\* claim is about these records).
C1_OfflineSubmissionQueued ==
  \A id \in 1..Len(reqs) :
    (reqs[id].path = SyncPath /\ reqs[id].method = "POST" /\ reqs[id].offline) =>
      /\ reqs[id].resp = Http(200)
      /\ Cardinality({i \in 1..Len(queue) : queue[i].id = id}) = 1

\* C2 (as claimed): a POST of the page to /api/sync is intercepted by the
\* worker and never goes to the network as it is.
C2_SyncPathIntercepted ==
  \A id \in 1..Len(reqs) :
    (reqs[id].path = SyncPath /\ reqs[id].method = "POST" /\ reqs[id].resp # NoResp) => reqs[id].via # "network"

\* C3 (as claimed): when the live POST of an intercepted submission fails
\* with a network error or is answered non-2xx, one record of it is queued
\* and the intercepted request is answered 200.
C3_FailedLivePostQueuedAnd200 ==
  \A id \in 1..Len(reqs) :
    (reqs[id].via = "route" /\ ~Ok(reqs[id].live)) =>
      /\ reqs[id].queued
      /\ reqs[id].resp = Http(200)

\* C4 (as claimed): a record leaves the queue only in a step in which its
\* replay was answered 2xx, or when its retention has expired; a replay
\* answered 5xx keeps it. (A replay refused with 4xx is not counted here: the
\* error taxonomy lets a refused record be dropped.)
C4_LeavesOnlyOn2xxOrExpiry ==
  [][\A i \in 1..Len(queue) :
       queue[i].id \notin {queue'[j].id : j \in 1..Len(queue')} =>
         \/ Expired(queue[i])
         \/ /\ Len(replayLog') = Len(replayLog) + 1
            /\ replayLog'[Len(replayLog')].id = queue[i].id
            /\ replayLog'[Len(replayLog')].status \in (200..299) \cup (400..499)]_vars

\* The step is an iteration of onSync's loop.
DrainStepTaken ==
  /\ syncState = "draining"
  /\ fetchQ' = fetchQ /\ now' = now /\ online' = online
  /\ syncState' # syncState \/ queue' # queue

\* Position of the record with id x in sequence q.
Pos(q, x) == CHOOSE k \in 1..Len(q) : q[k].id = x
Ids(q) == {q[i].id : i \in 1..Len(q)}

\* The records of q that were queued in q0 are in the order they have in q0.
OrderKept(q, q0) ==
  \A i, j \in 1..Len(q) :
    (i < j /\ q[i].id \in Ids(q0) /\ q[j].id \in Ids(q0)) =>
      Pos(q0, q[i].id) < Pos(q0, q[j].id)

C6_ReadyAfterPong ==
  /\ swReady => PongsReceived >= 1
  /\ \A v \in Versions : clientReady[v] >= 1 => swReady
  /\ Sum(clientReady) <= PongsReceived

\* C6 witness: the handshake has completed and CLIENT_READY is on its way.
C6_Witness ==
  /\ swReady
  /\ \E v \in Versions :
       /\ clientReady[v] = 1
       /\ \E i \in 1..Len(inbox[v]) : inbox[v][i].type = "CLIENT_READY"

\* C7 (as claimed): every PING a worker's message listener has handled was
\* answered with a PONG to its source.
C7_EveryPingAnswered ==
  \A v \in Versions : pongsPosted[v] = pingsHandled[v]

\* C8 (as claimed): after a change of worker version swReady is resolved only
\* after the new controller has answered the page's PING: whenever swReady is
\* resolved, the page has a controller and has received a PONG from it.
C8_ReadyOnlyAfterPongOfController ==
  swReady => (controller # 0 /\ pongsFrom[controller] >= 1)

\* C9: a sync request issued before swReady is resolved is held back; when
\* swReady resolves the held requests are forwarded, in the order they were
\* issued, and none is dropped: at any time the requests forwarded, followed
\* by the requests held, are the requests issued, in issue order.
C9_HeldThenForwardedInOrder ==
  /\ swReady => waiting = <<>>
  /\ forwarded \o [i \in 1..Len(waiting) |-> waiting[i].id] = [i \in 1..issued |-> i]
  /\ \A i \in 1..Len(forwarded) : reqs[forwarded[i]].via \notin {"pending", "dropped"}
       \/ forwarded[i] \in Range(fetchQ)

\* C9 witness: two requests were held, swReady resolved under a second
\* worker version, and both have been forwarded.
C9_Witness ==
  /\ flushed >= 2
  /\ forwarded = <<1, 2>>
  /\ controller = 2

\* C10: as long as no PONG has been received, swReady is unresolved and the
\* page has sent neither a SYNC_DATA message nor a POST to /api/sync; every
\* such send happens with swReady resolved.
C10_NoSyncSendBeforeReady ==
  /\ PongsReceived = 0 =>
       /\ ~swReady
       /\ \A v \in Versions : \A i \in 1..Len(inbox[v]) : inbox[v][i].type # "SYNC_DATA"
       /\ fetchQ = <<>>
       /\ \A id \in 1..Len(reqs) : reqs[id].via = "pending"
  /\ forwarded # <<>> => swReady

\* C10 witness: the page PINGed the repository's worker, the worker handled
\* the PING without answering, and a sync request is held.
C10_Witness ==
  /\ PongsReceived = 0
  /\ build = "repo"
  /\ \E v \in Versions : pingsHandled[v] >= 1
  /\ waiting # <<>>

\* C11: swReady is resolved at most once and is never un-resolved: a step
\* taken with swReady resolved (a second PONG, of the same or of a new
\* controller, included) leaves it resolved and runs no reaction again.
C11_ReadyResolvedOnce ==
  [][swReady => (swReady' /\ flushed' = flushed)]_vars

\* C11 witness: swReady is resolved and a second PONG, from a new
\* controller, has been received.
C11_Witness ==
  /\ swReady
  /\ pongsFrom[1] >= 1
  /\ pongsFrom[2] >= 1
  /\ controller = 2

\* C12: a worker version that starts installing skips the waiting state and
\* claims the page: the page, which stays open, eventually has that version
\* (or a newer one that replaced it meanwhile) as its controller, and the
\* worker that controlled the page before is redundant.
C12_NewVersionTakesControl ==
  /\ \A v \in Versions : (swState[v] = "installing") ~> (controller >= v)
  /\ [](\A v \in Versions : swState[v] # "waiting")
  /\ [](\A v \in Versions : (controller # 0 /\ v < controller) =>
                               swState[v] \in {"redundant", "absent"})

\* C12 witness: version 2 controls the page that version 1 controlled.
C12_Witness ==
  /\ controller = 2
  /\ swState[2] = "controlling"
  /\ swState[1] = "redundant"
  /\ ccHandled = 2

\* Number of reply stubs with id c in the stored entry of p.
StubCount(p, c) ==
  Cardinality({i \in 1..Len(store[p].replies) : store[p].replies[i].id = c})

\* C13 (as claimed): saving a reply again leaves its stub in the stored parent
\* exactly once: no stored parent lists the same reply id twice.
C13_ReplyStubOnce ==
  \A p \in NodeIds : Stored(store, p) => \A c \in NodeIds : StubCount(p, c) <= 1

\* The ids of a sequence of stubs, nodes or save records.
IdsOf(q) == [i \in 1..Len(q) |-> q[i].id]

\* Index of the last save of id p (0: never saved).
LastSave(p) ==
  IF \E i \in 1..Len(saveLog) : saveLog[i].id = p
  THEN CHOOSE i \in 1..Len(saveLog) :
         saveLog[i].id = p /\ \A j \in (i + 1)..Len(saveLog) : saveLog[j].id # p
  ELSE 0

\* The saves of replies to p since (and including) the save that wrote the
\* entry of p, in the order they were made.
RECURSIVE RepliesSaved(_, _)
RepliesSaved(p, i) ==
  IF i > Len(saveLog) THEN <<>>
  ELSE IF saveLog[i].parentId = p
       THEN <<saveLog[i]>> \o RepliesSaved(p, i + 1)
       ELSE RepliesSaved(p, i + 1)

\* C14: for every stored parent the stubs in its replies are, in order, the
\* replies saved to it since its entry was written; and a thread returned for
\* it has its replies in the order of the stubs.
C14_RepliesInSaveOrder ==
  /\ \A p \in NodeIds :
       Stored(store, p) =>
         IdsOf(store[p].replies) = IdsOf(RepliesSaved(p, LastSave(p)))
  /\ thread.result.kind = "node" =>
       IdsOf(thread.result.replies) = IdsOf(store[thread.root].replies)

\* C14 witness: two different replies were saved to a stored root, and its
\* thread has been returned with both.
C14_Witness ==
  /\ thread.result.kind = "node"
  /\ Len(thread.result.replies) = 2
  /\ thread.result.replies[1].id # thread.result.replies[2].id
  /\ thread.result.replies[1].kind = "node"
  /\ thread.result.replies[2].kind = "node"

\* C15 (as claimed): getSearchResult returns the stored value if and only if
\* now < expires.
C15_GetIffBeforeExpiry ==
  lastGet # NoGet => (lastGet.hit <=> (lastGet.had /\ lastGet.at < lastGet.expires))

\* C15 (amended): getSearchResult returns the stored value if and only if an
\* entry is stored and now <= expires; for a stored entry with now > expires
\* it removes the key and returns null; and a key that is not stored becomes
\* stored again only by a save of that id.
C15_GetIffNotAfterExpiry ==
  /\ [](lastGet # NoGet =>
          /\ lastGet.hit <=> (lastGet.had /\ lastGet.at <= lastGet.expires)
          /\ ~lastGet.hit => ~Stored(store, lastGet.id)
          /\ lastGet.hit => (Stored(store, lastGet.id) /\
                             store[lastGet.id].expires = lastGet.expires))
  /\ [][\A id \in NodeIds :
          (~Stored(store, id) /\ Stored(store', id)) =>
            /\ Len(saveLog') = Len(saveLog) + 1
            /\ saveLog'[Len(saveLog')].id = id]_vars

\* C15 witness: a get found an entry past its expiry, removed it and returned
\* null.
C15_Witness ==
  /\ lastGet.had
  /\ ~lastGet.hit
  /\ lastGet.at > lastGet.expires
  /\ ~Stored(store, lastGet.id)

\* C16 (as claimed): every call of getConversationThread returns.
C16_ThreadTerminates ==
  thread.result.kind # "diverges"

\* C18 (as claimed): every stored reply was saved while the key of its parent
\* was present.
C18_ParentStoredAtSave ==
  \A id \in NodeIds :
    (Stored(store, id) /\ store[id].parentId # NoParent) =>
      saveLog[LastSave(id)].parentStored

\* A returned node n is the expansion of its stored entry: reply by reply, a
\* stub whose entry can be read is that entry's expansion, any other stub is
\* returned as it is stored.
RECURSIVE WellExpanded(_)
WellExpanded(n) ==
  LET stubs == store[n.id].replies
  IN /\ Len(n.replies) = Len(stubs)
     /\ \A i \in 1..Len(stubs) :
          IF Live(store, stubs[i].id)
          THEN /\ n.replies[i].kind = "node"
               /\ n.replies[i].id = stubs[i].id
               /\ WellExpanded(n.replies[i])
          ELSE n.replies[i] = stubs[i]

RECURSIVE RecentIds(_, _)
RecentIds(i, acc) ==
  IF i = 0 THEN acc
  ELSE IF \E k \in 1..Len(acc) : acc[k] = histLog[i] THEN RecentIds(i - 1, acc)
  ELSE RecentIds(i - 1, Append(acc, histLog[i]))

HistoryIds == [i \in 1..Len(history) |-> history[i].id]

\* C19: the persisted history has at most 50 entries, and they are the 50 most
\* recently saved items, most recent first (an item saved again counts once,
\* at its latest save).
C19_HistoryMostRecentFifty ==
  /\ Len(history) <= HistoryLimit
  /\ LET recent == RecentIds(Len(histLog), <<>>)
     IN  HistoryIds = SubSeq(recent, 1, IF Len(recent) < HistoryLimit
                                        THEN Len(recent) ELSE HistoryLimit)

\* C19 witness: more than 50 different items were saved, one of them twice;
\* the history is full and the oldest item is no longer in it.
C19_Witness ==
  /\ Len(history) = HistoryLimit
  /\ Cardinality(HistIds) > HistoryLimit
  /\ Len(histLog) > Cardinality(HistIds)
  /\ \A i \in 1..Len(history) : history[i].id # 1

\* C20 (as claimed): no two entries of the persisted history have the same
\* query, and the item saved last is the first entry.
C20_HistoryQueriesDistinct ==
  /\ \A i, j \in 1..Len(history) :
       history[i].query = history[j].query => i = j
  /\ histLog # <<>> => history[1].id = histLog[Len(histLog)]

\* C21: a root search whose root entry is stored and not expired returns that
\* root at once, having consulted the local store only: no LLM call, no
\* write to the local store, no sync submission.
C21_StoredRootReturned ==
  [][(/\ so.phase = "idle"
      /\ so'.phase # "idle"
      /\ so'.parent = NoParent
      /\ Live(store, generateQueryHash(so'.query)))
     => (/\ so'.phase = "done"
         /\ so'.ret = [kind |-> "local", n |-> 1, id |-> generateQueryHash(so'.query)]
         /\ so'.tiers = <<"local">>
         /\ so'.llm = "none"
         /\ store' = store
         /\ saveLog' = saveLog
         /\ emitted' = emitted
         /\ issued' = issued)]_vars

\* C21 witness: the second search of a run, a root search, was answered from
\* the local store.
C21_Witness ==
  /\ so.phase = "done"
  /\ so.parent = NoParent
  /\ so.ret.kind = "local"
  /\ searches = 2
  /\ Live(store, generateQueryHash(so.query))

\* C22: the tiers are consulted in the order local store, similarity gateway
\* (when there is a userId), LLM. A non-empty answer of the gateway is what the
\* search returns, without an LLM call; with a userId the LLM is called only
\* after the gateway has returned an empty answer.
C22_TiersInOrder ==
  /\ [](/\ so.tiers \in {<<>>, <<"local">>, <<"local", "similar">>,
                         <<"local", "llm">>, <<"local", "similar", "llm">>}
        /\ so.user /\ so.phase = "llm" => so.tiers = <<"local", "similar", "llm">>
        /\ so.llm # "none" => so.tiers[Len(so.tiers)] = "llm"
        /\ so.phase = "done" /\ so.ret.kind = "similar"
             => so.tiers = <<"local", "similar">> /\ so.llm = "none")
  /\ [][so.phase = "similar" /\ so'.phase # "similar"
        => /\ scg.phase \in {"returned", "thrown"}
           /\ scg.phase = "returned" /\ scg.n > 0
                => so'.phase = "done" /\ so'.ret = [kind |-> "similar", n |-> scg.n]
           /\ so'.phase = "llm" => scg.phase = "returned" /\ scg.n = 0]_vars

\* C22 witness: a search with a userId missed the local store and returned
\* what the similarity gateway found.
C22_Witness ==
  /\ so.phase = "done"
  /\ so.user
  /\ so.ret.kind = "similar"
  /\ so.ret.n > 0

\* C23: when the LLM call ran into its deadline, failed on the network or was
\* answered with a non-2xx status, the search returns (it does not throw)
\* exactly one result, with category "Error", confidence 0 and no sources.
C23_LlmFailureFallsBack ==
  so.llm \in {"status", "neterr", "timeout"}
    => /\ so.phase = "done"
       /\ so.ret.kind = "fallback"
       /\ so.ret.n = 1
       /\ so.ret.category = "Error"
       /\ so.ret.confidence = 0
       /\ so.ret.sources = 0

\* C23 witness: a search whose LLM call timed out has returned.
C23_Witness ==
  /\ so.phase = "done"
  /\ so.llm = "timeout"
  /\ so.ret.kind = "fallback"

\* C24 (as claimed): a find call polls at most 5 times; every attempt without
\* a hit is followed by a wait of 1 s * 2^attempt before the next attempt, so
\* that attempt k starts after waits of (2^k - 1) s in all; the waits add up
\* to at most 31 s; a call that runs out of attempts returns nothing.
C24_PollBackoff ==
  /\ scg.polls <= MAX_POLL_ATTEMPTS
  /\ scg.waited <= SIMILARITY_POLL_INTERVAL * (Pow2(MAX_POLL_ATTEMPTS) - 1)
  /\ scg.phase \in {"poll", "wait"}
       => scg.waited = SIMILARITY_POLL_INTERVAL * (Pow2(scg.attempt) - 1)
  /\ scg.phase = "returned" /\ scg.attempt = MAX_POLL_ATTEMPTS => scg.n = 0

\* C25 (as claimed): findSimilarCachedResults never throws, and a search does
\* not throw because of it.
C25_FindNeverThrows ==
  /\ scg.phase # "thrown"
  /\ so.ret.kind # "thrown"

\* C26 (as claimed): once the caller has given the find call up, no read of
\* the remote store is issued and no back-off wait is started.
C26_AbortStopsPolling ==
  [][scg.aborted
     => /\ scg'.polls = scg.polls
        /\ scg'.phase = "wait" => scg.phase = "wait"]_vars

\* C30 (as claimed): every sync submission a search emits has a body
\* {webhookUrl, payload: {results, userId, fingerprintId}} whose fingerprintId
\* is the one in page storage.
C30_SubmissionCarriesFingerprint ==
  \A i \in 1..Len(emitted) :
    /\ emitted[i].webhookUrl
    /\ emitted[i].payload = "object"
    /\ emitted[i].fingerprintId = "stored"

C28_FailedPostIsQueued ==
  (finished.trigger = "CACHE_NEW_ENTRY" /\ finished.outcome = "failed")
    => queue # <<>>

\* C29: the message the worker posts after a 2xx has the type SYNC_SUCCESS,
\* and App's handler acts on it.
C29_SuccessTypeMatches ==
  \A h \in handled : h.type = "SYNC_SUCCESS" /\ h.recognised /\ h.toast

\* C31: the worker handles a sync trigger the same way whatever messages it
\* got before: every call of syncCacheData goes on to ask the page for the
\* cache data, none returns for want of a configuration sent earlier.
C31_TriggerHandledAlike ==
  [][syncs' = syncs + 1 =>
       /\ Len(cacheSync') = Len(cacheSync) + 1
       /\ cacheSync'[Len(cacheSync')].phase = "request"]_vars

C40_ReplySaveFrame ==
  [][Len(saveLog') = Len(saveLog) + 1 =>
       LET saved == saveLog'[Len(saveLog')]
           r == Result(saved.id, saved.parentId)
       IN \A id \in NodeIds \ {r.id} :
            IF id = r.parentId /\ Stored(store, id)
            THEN /\ store'[id].replies = Append(store[id].replies, Stub(r))
                 /\ store'[id] = [store[id] EXCEPT !.replies = store'[id].replies]
            ELSE store'[id] = store[id]]_vars

\* A parent holds the stub of a reply that was written after it: the reply
\* expires later than the parent.
C40_Witness ==
  \E p, c \in NodeIds :
    /\ p # c
    /\ Stored(store, p) /\ Stored(store, c)
    /\ store[c].parentId = p
    /\ \E i \in 1..Len(store[p].replies) : store[p].replies[i].id = c
    /\ store[p].expires < store[c].expires

\* C33: a sync submission is emitted only by a search that wrote a result to
\* the local store, and it carries no more results than were written.
C33_EmitsOnlyWhatWasWritten ==
  [][Len(emitted') > Len(emitted) =>
       /\ Len(saveLog') > Len(saveLog)
       /\ emitted'[Len(emitted')].results = Len(saveLog') - Len(saveLog)]_vars

\* C34: the webhook is not sent an entry it has accepted before: no payload
\* answered 2xx holds an entry of an earlier payload answered 2xx.
C34_NoEntryPostedTwice ==
  [][accepted' # accepted \/ Len(notices') > Len(notices) =>
       finished'.payload \cap accepted = {}]_vars

\* C37: every entry of the store that the cursor has passed was part of a
\* payload the webhook accepted, so that an entry not sent yet is still ahead
\* of the cursor and goes out with a later sync.
C37_NoEntryLeftBehind ==
  \A id \in NodeIds :
    (Stored(store, id) /\ store[id].timestamp <= lastSyncTimestamp)
      => id \in accepted

\* C35: the payload syncCacheData posts is the list, in received order, of
\* the entries that have a value and whose timestamp in milliseconds (the
\* entry's, else the value's, else 0) is greater than lastSyncTimestamp;
\* with an empty list no POST is made.
C35_PayloadIsNewerEntries ==
  filterRun.ran =>
    LET ms(e) == IF Truthy(e.timestamp)
                 THEN (IF e.timestamp.kind = "number" \/ e.timestamp.ms # NaN
                       THEN e.timestamp.ms ELSE 0)
                 ELSE IF Truthy(e.valueTimestamp)
                 THEN (IF e.valueTimestamp.kind = "number" \/ e.valueTimestamp.ms # NaN
                       THEN e.valueTimestamp.ms ELSE 0)
                 ELSE 0
        kept(e) == e.hasValue /\ ms(e) > filterRun.lastTs
    IN /\ filterRun.filteredData = SelectSeq(cacheData, kept)
       /\ filterRun.posted <=> filterRun.filteredData # <<>>

\* The filter ran over two entries and kept the second only, by the
\* timestamp of its value.
C35_Witness ==
  /\ filterRun.ran
  /\ Len(cacheData) = 2
  /\ filterRun.filteredData = <<cacheData[2]>>
  /\ cacheData[1].hasValue
  /\ ~Truthy(cacheData[2].timestamp)
  /\ filterRun.posted

\* C36: two follow-up results the orchestrator made never have the same id.
C36_ResultIdsDistinct ==
  \A a, b \in produced : a # b => a.id # b.id

C39_ClientReadyToPongSender ==
  \A v \in Versions : clientReady[v] >= 1 => pongsFrom[v] >= 1

=============================================================================
